---------------------------- MODULE Spec2Model ----------------------------
(***************************************************************************)
(* Daily-needs shop dashboard (src/app.py): the SQLite store with its      *)
(* three tables, the seed loader, the admin forms, the order workflow and  *)
(* the two aggregation functions compute_customers_per_hour and            *)
(* compute_low_stock.                                                      *)
(*                                                                         *)
(* Conventions.  A table is a sequence of rows in rowid order.  Prices are *)
(* whole rupees (every literal of the seed data is integral).  Time is     *)
(* counted in hours; hour-of-day is t % Hours.  One action is one run of   *)
(* the Streamlit script (get_conn, init_db, seed_dummy_data, load_tables,  *)
(* then the selected page), except the Finalize handler, which is split at *)
(* its SQL statements so that a failure between two statements can be      *)
(* observed.                                                               *)
(***************************************************************************)
EXTENDS Integers, Sequences, FiniteSets, TLC

VARIABLES
    db,             \* the committed content of shop.db
    tx,             \* the content as seen by the script's connection
    pc,             \* "idle" | "items": position inside the Finalize handler
    idx,            \* loop index of the Finalize item loop (1-based)
    cart,           \* st.session_state['order_items_tmp']
    products_df,    \* load_tables: products
    orders_df,      \* load_tables: orders
    order_items_df, \* load_tables: order_items JOIN products
    total_amt,      \* bill_df['Line Total'].sum()
    oid,            \* cur.lastrowid of the order header
    now,            \* datetime.now(), in hours
    message,        \* what the page reported last
    per_hour,       \* result of compute_customers_per_hour
    low_df,         \* result of compute_low_stock
    threshold_arg   \* the threshold compute_low_stock was called with

vars == <<db, tx, pc, idx, cart, products_df, orders_df, order_items_df,
          total_amt, oid, now, message, per_hour, low_df, threshold_arg>>

---------------------------------------------------------------------------
(* Bounds of the model *)

MaxAdded == 1
MaxProductId == 21
MaxItemId == 17
StockCap == 2

(* Program constants *)

Hours == 24
RecentDays == 30
Threshold == 2

Epoch == 10 * Hours + 9

(* Inputs offered to the forms *)

PidInputs == {10, 11}
QtyInputs == {1, 3}
StockPidInputs == {10, 18}
AddQtyInputs == {2}
NameInputs == {"Candle"}
CostInputs == {10}
SellInputs == {30}
StockInputs == {0, 2}
CustInputs == {"Walk-in"}

(* Inputs of the aggregation functions *)

AggMaxItems == 2
AggOrderCounts == {0, 1, 2}
AggNow == (RecentDays + 2) * Hours + 9
OrderTimeInputs == {AggNow - RecentDays * Hours - 1, AggNow - RecentDays * Hours, AggNow - 3}
AggPids == {1, 2}
AggStockInputs == {1, 2}
AggLineInputs == {<<1, 1>>, <<1, 2>>, <<2, 1>>}
ThresholdInputs == {1, 2, 3}

---------------------------------------------------------------------------
(* Store *)

EmptyStore ==
    [products |-> <<>>, orders |-> <<>>, order_items |-> <<>>,
     seq_products |-> 0, seq_orders |-> 0, seq_order_items |-> 0]

Ids(table) == {table[i].id : i \in DOMAIN table}

SelectProduct(products, pid) == SelectSeq(products, LAMBDA r : r.id = pid)

InsertProduct(s, name, cost, sell, stock) ==
    [s EXCEPT !.products = Append(@, [id |-> s.seq_products + 1, name |-> name,
                                      cost_price |-> cost, selling_price |-> sell,
                                      stock_qty |-> stock]),
              !.seq_products = @ + 1]

InsertOrder(s, order_time, cust, total) ==
    [s EXCEPT !.orders = Append(@, [id |-> s.seq_orders + 1, order_time |-> order_time,
                                    customer_name |-> cust, total_amount |-> total]),
              !.seq_orders = @ + 1]

InsertItemNextOrder(s, order_id, pid, qty, unit) ==
    [s EXCEPT !.order_items = Append(@, [id |-> s.seq_order_items + 1,
                                         order_id |-> order_id + 1, product_id |-> pid,
                                         qty |-> qty, unit_price |-> unit]),
              !.seq_order_items = @ + 1]

InsertItem(s, order_id, pid, qty, unit) ==
    [s EXCEPT !.order_items = Append(@, [id |-> s.seq_order_items + 1,
                                         order_id |-> order_id, product_id |-> pid,
                                         qty |-> qty, unit_price |-> unit]),
              !.seq_order_items = @ + 1]

DecrementUnclamped(stock, qty) == stock - qty

Decrement(stock, qty) == IF stock - qty < 0 THEN 0 ELSE stock - qty

DeductStockEverywhere(s, pid, qty) ==
    [s EXCEPT !.products =
        [i \in DOMAIN @ |-> [@[i] EXCEPT !.stock_qty = Decrement(@, qty)]]]

DeductStock(s, pid, qty) ==
    [s EXCEPT !.products =
        [i \in DOMAIN @ |-> IF @[i].id = pid
                            THEN [@[i] EXCEPT !.stock_qty = Decrement(@, qty)]
                            ELSE @[i]]]

AddToStock(s, pid, add_qty) ==
    [s EXCEPT !.products =
        [i \in DOMAIN @ |-> IF @[i].id = pid
                            THEN [@[i] EXCEPT !.stock_qty = @ + add_qty]
                            ELSE @[i]]]

SetTotal(s, order_id, total) ==
    [s EXCEPT !.orders =
        [i \in DOMAIN @ |-> IF @[i].id = order_id
                            THEN [@[i] EXCEPT !.total_amount = total]
                            ELSE @[i]]]

PendingAutocommit(committed, written) == written

Pending(committed, written) == committed

---------------------------------------------------------------------------
(* Seed loader *)

SeedProducts ==
    << <<"Milk 1L", 20, 25, 50>>,
       <<"Bread Loaf", 15, 20, 30>>,
       <<"Eggs Pack (12)", 60, 75, 20>>,
       <<"Toothpaste", 40, 55, 10>>,
       <<"Soap", 10, 20, 5>>,
       <<"Rice 5kg", 250, 300, 8>>,
       <<"Cooking Oil 1L", 120, 150, 12>>,
       <<"Sugar 1kg", 40, 50, 0>>,
       <<"Salt 1kg", 12, 20, 40>>,
       <<"Tea Pack 100g", 30, 45, 3>> >>

SampleOrders ==
    << [cust |-> "Amit", days |-> 2, items |-> << <<1, 2>>, <<2, 1>> >>],
       [cust |-> "Shreya", days |-> 5, items |-> << <<3, 1>>, <<5, 2>> >>],
       [cust |-> "Ramesh", days |-> 10, items |-> << <<6, 1>>, <<7, 1>> >>],
       [cust |-> "Priya", days |-> 1, items |-> << <<1, 1>>, <<2, 2>>, <<9, 1>> >>],
       [cust |-> "Karan", days |-> 4, items |-> << <<10, 1>>, <<4, 1>> >>],
       [cust |-> "Neha", days |-> 8, items |-> << <<1, 1>>, <<8, 1>> >>],
       [cust |-> "LocalShop", days |-> 6, items |-> << <<9, 5>>, <<2, 5>> >>] >>

SeedSkipsNever(s, force) == Len(s.products) > 0 /\ force

SeedSkips(s, force) == Len(s.products) > 0 /\ ~force

ClearTables(s) == [s EXCEPT !.products = <<>>, !.orders = <<>>, !.order_items = <<>>]

RECURSIVE SeedInsertProducts(_, _)
SeedInsertProducts(s, k) ==
    IF k > Len(SeedProducts) THEN s
    ELSE SeedInsertProducts(
             InsertProduct(s, SeedProducts[k][1], SeedProducts[k][2],
                           SeedProducts[k][3], SeedProducts[k][4]), k + 1)

RECURSIVE SeedItems(_, _, _, _, _)
SeedItems(s, order_id, items, k, total) ==
    IF k > Len(items) THEN SetTotal(s, order_id, total)
    ELSE LET pid == items[k][1]
             qty == items[k][2]
             row == SelectProduct(s.products, pid)
         IN  IF row = <<>>
             THEN SeedItems(s, order_id, items, k + 1, total)
             ELSE LET unit == row[1].selling_price
                  IN  SeedItems(DeductStock(InsertItem(s, order_id, pid, qty, unit), pid, qty),
                                order_id, items, k + 1, total + unit * qty)

RECURSIVE SeedOrders(_, _, _)
SeedOrders(s, t, k) ==
    IF k > Len(SampleOrders) THEN s
    ELSE LET o == SampleOrders[k]
             s1 == InsertOrder(s, t - o.days * Hours, o.cust, 0)
         IN  SeedOrders(SeedItems(s1, s1.seq_orders, o.items, 1, 0), t, k + 1)

seed_dummy_data(s, force, t) ==
    IF SeedSkips(s, force) THEN s
    ELSE SeedOrders(SeedInsertProducts(ClearTables(s), 1), t, 1)

---------------------------------------------------------------------------
(* Analytics *)

JoinProducts(order_items, products) ==
    LET present == SelectSeq(order_items, LAMBDA r : r.product_id \in Ids(products))
    IN  [i \in DOMAIN present |->
            LET p == SelectProduct(products, present[i].product_id)[1]
            IN  [id |-> present[i].id, order_id |-> present[i].order_id,
                 product_id |-> present[i].product_id, qty |-> present[i].qty,
                 unit_price |-> present[i].unit_price,
                 product_name |-> p.name, cost_price |-> p.cost_price]]

HourOf(t) == t % Hours

compute_customers_per_hour(orders) ==
    IF orders = <<>> THEN <<>>
    ELSE LET hours == {HourOf(orders[i].order_time) : i \in DOMAIN orders}
             counted == [h \in hours |->
                            Cardinality({i \in DOMAIN orders : HourOf(orders[i].order_time) = h})]
         IN  [r \in 1..Hours |->
                [hour |-> r - 1,
                 customers |-> IF (r - 1) \in hours THEN counted[r - 1] ELSE 0]]

RECURSIVE SumQty(_)
SumQty(rows) == IF rows = <<>> THEN 0 ELSE Head(rows).qty + SumQty(Tail(rows))

LowFilterInclusive(products, threshold) ==
    SelectSeq(products, LAMBDA r : r.stock_qty <= threshold)

LowFilter(products, threshold) ==
    SelectSeq(products, LAMBDA r : r.stock_qty < threshold)

compute_low_stock(products, order_items, orders, t, threshold) ==
    LET low == LowFilter(products, threshold)
        last_30 == t - RecentDays * Hours
        order_recent == SelectSeq(orders, LAMBDA o : o.order_time >= last_30)
        recent_ids == Ids(order_recent)
        recent_items == SelectSeq(order_items, LAMBDA r : r.order_id \in recent_ids)
        sold_pids == {recent_items[i].product_id : i \in DOMAIN recent_items}
        sales_30d == [p \in sold_pids |->
                         SumQty(SelectSeq(recent_items, LAMBDA r : r.product_id = p))]
    IN  IF low = <<>> THEN <<>>
        ELSE [i \in DOMAIN low |->
                [id |-> low[i].id, name |-> low[i].name, stock_qty |-> low[i].stock_qty,
                 sold_last_30d |-> IF order_recent # <<>> /\ low[i].id \in sold_pids
                                   THEN sales_30d[low[i].id] ELSE 0]]

---------------------------------------------------------------------------
(* One run of the script: seed_dummy_data(conn), then load_tables(conn) *)

Started(s) == seed_dummy_data(s, FALSE, now)

load_tables(s) ==
    /\ products_df' = s.products
    /\ orders_df' = s.orders
    /\ order_items_df' = JoinProducts(s.order_items, s.products)

NoReports == per_hour' = <<>> /\ low_df' = <<>> /\ threshold_arg' = Threshold

NoBill == total_amt' = 0 /\ oid' = 0

(* The bill of the Add Order page *)

LinesBuilt(items, products) ==
    \A i \in DOMAIN items : items[i].product_id \in Ids(products)

LineTotalAtCost(p, qty) == p.cost_price * qty

LineTotal(p, qty) == p.selling_price * qty

RECURSIVE BillTotal(_, _)
BillTotal(items, products) ==
    IF items = <<>> THEN 0
    ELSE LineTotal(SelectProduct(products, Head(items).product_id)[1], Head(items).qty)
         + BillTotal(Tail(items), products)

HasLinesAlways(lines) == TRUE

HasLines(lines) == lines # <<>>

---------------------------------------------------------------------------
Init ==
    /\ db = EmptyStore
    /\ tx = EmptyStore
    /\ pc = "idle"
    /\ idx = 0
    /\ cart = <<>>
    /\ products_df = <<>>
    /\ orders_df = <<>>
    /\ order_items_df = <<>>
    /\ total_amt = 0
    /\ oid = 0
    /\ now = Epoch
    /\ message = "not started"
    /\ per_hour = <<>>
    /\ low_df = <<>>
    /\ threshold_arg = Threshold

(* mode == "Dashboard" *)
Dashboard ==
    /\ pc = "idle"
    /\ LET s == Started(db)
       IN  /\ db' = s
           /\ tx' = s
           /\ load_tables(s)
           /\ per_hour' = compute_customers_per_hour(s.orders)
           /\ low_df' = IF per_hour' = <<>> THEN <<>>
                        ELSE compute_low_stock(s.products,
                                               JoinProducts(s.order_items, s.products),
                                               s.orders, now, Threshold)
    /\ threshold_arg' = Threshold
    /\ message' = "Business Insights"
    /\ NoBill
    /\ UNCHANGED <<pc, idx, cart, now>>

(* mode == "Admin - Manage Products", form add_prod *)
AddProduct(pname, cost, sell, stock) ==
    /\ pc = "idle"
    /\ message # "not started"
    /\ Len(db.products) < Len(SeedProducts) + MaxAdded
    /\ LET s == Started(db)
           s1 == InsertProduct(s, pname, cost, sell, stock)
       IN  /\ load_tables(s)
           /\ db' = s1
           /\ tx' = s1
    /\ message' = "Product added successfully."
    /\ NoBill /\ NoReports
    /\ UNCHANGED <<pc, idx, cart, now>>

(* mode == "Admin - Manage Products", form add_stock *)
AddStock(pid, add_qty) ==
    /\ pc = "idle"
    /\ message # "not started"
    /\ \A i \in DOMAIN db.products :
          db.products[i].id = pid => db.products[i].stock_qty + add_qty <= StockCap
    /\ LET s == Started(db)
           s1 == AddToStock(s, pid, add_qty)
       IN  /\ load_tables(s)
           /\ db' = s1
           /\ tx' = s1
    /\ message' = "Added units to Product."
    /\ NoBill /\ NoReports
    /\ UNCHANGED <<pc, idx, cart, now>>

(* mode == "Admin - Add Order", form new_order *)
AddItem(pid, qty) ==
    /\ pc = "idle"
    /\ message # "not started"
    /\ db.seq_order_items + Len(cart) < MaxItemId
    /\ LET s == Started(db)
       IN  /\ pid \in Ids(s.products)
           /\ load_tables(s)
           /\ db' = s
           /\ tx' = s
    /\ cart' = Append(cart, [product_id |-> pid, qty |-> qty])
    /\ message' = "Item added"
    /\ NoBill /\ NoReports
    /\ UNCHANGED <<pc, idx, now>>

(* mode == "Admin - Add Order", the page drawn with no button pressed *)
AddOrderPage ==
    /\ pc = "idle"
    /\ LET s == Started(db)
       IN  /\ load_tables(s)
           /\ db' = s
           /\ tx' = s
           /\ IF ~LinesBuilt(cart, s.products)
              THEN message' = "IndexError" /\ total_amt' = 0
              ELSE IF HasLines(cart)
                   THEN message' = "Current Items" /\ total_amt' = BillTotal(cart, s.products)
                   ELSE message' = "Add products to order first." /\ total_amt' = 0
    /\ oid' = 0
    /\ NoReports
    /\ UNCHANGED <<pc, idx, cart, now>>

(* "Finalize Order" pressed: the order header is inserted *)
FinalizeBegin(cust) ==
    /\ pc = "idle"
    /\ message # "not started"
    /\ LET s == Started(db)
       IN  /\ LinesBuilt(cart, s.products)
           /\ HasLines(cart)
           /\ load_tables(s)
           /\ total_amt' = BillTotal(cart, s.products)
           /\ LET s1 == InsertOrder(s, now, cust, total_amt')
              IN  /\ tx' = s1
                  /\ db' = Pending(s, s1)
                  /\ oid' = s1.seq_orders
    /\ pc' = "items"
    /\ idx' = 1
    /\ message' = "Finalize Order"
    /\ NoReports
    /\ UNCHANGED <<cart, now>>

(* one pass of the loop over the staged items *)
FinalizeItem ==
    /\ pc = "items"
    /\ idx <= Len(cart)
    /\ LET item == cart[idx]
           row == SelectProduct(tx.products, item.product_id)
       IN  IF row = <<>>
           THEN /\ tx' = db
                /\ db' = db
                /\ pc' = "idle"
                /\ idx' = 0
                /\ message' = "TypeError"
           ELSE LET s1 == DeductStock(InsertItem(tx, oid, item.product_id, item.qty,
                                                 row[1].selling_price),
                                      item.product_id, item.qty)
                IN  /\ tx' = s1
                    /\ db' = Pending(db, s1)
                    /\ pc' = "items"
                    /\ idx' = idx + 1
                    /\ message' = message
    /\ UNCHANGED <<cart, products_df, orders_df, order_items_df, total_amt, oid, now,
                   per_hour, low_df, threshold_arg>>

(* conn.commit(), the success message, the cart cleared *)
FinalizeCommit ==
    /\ pc = "items"
    /\ idx > Len(cart)
    /\ db' = tx
    /\ cart' = <<>>
    /\ pc' = "idle"
    /\ idx' = 0
    /\ message' = "Order saved"
    /\ UNCHANGED <<tx, products_df, orders_df, order_items_df, total_amt, oid, now,
                   per_hour, low_df, threshold_arg>>

(* a statement of the handler raises: the run ends with the transaction open, *)
(* and the connection is dropped without a commit *)
FinalizeFail ==
    /\ pc = "items"
    /\ tx' = db
    /\ pc' = "idle"
    /\ idx' = 0
    /\ message' = "OperationalError"
    /\ UNCHANGED <<db, cart, products_df, orders_df, order_items_df, total_amt, oid, now,
                   per_hour, low_df, threshold_arg>>

(* seed_dummy_data(conn, force=True) *)
Reseed ==
    /\ pc = "idle"
    /\ message # "not started"
    /\ db.seq_products + Len(SeedProducts) <= MaxProductId
    /\ LET s == seed_dummy_data(db, TRUE, now)
       IN  /\ db' = s
           /\ tx' = s
    /\ message' = "Seeded"
    /\ UNCHANGED <<pc, idx, cart, products_df, orders_df, order_items_df, total_amt, oid,
                   now, per_hour, low_df, threshold_arg>>

Next ==
    \/ Dashboard
    \/ \E pname \in NameInputs, cost \in CostInputs, sell \in SellInputs, stock \in StockInputs :
          AddProduct(pname, cost, sell, stock)
    \/ \E pid \in StockPidInputs, add_qty \in AddQtyInputs : AddStock(pid, add_qty)
    \/ \E pid \in PidInputs, qty \in QtyInputs : AddItem(pid, qty)
    \/ AddOrderPage
    \/ \E cust \in CustInputs : FinalizeBegin(cust)
    \/ FinalizeItem
    \/ FinalizeCommit
    \/ FinalizeFail
    \/ Reseed

Spec == Init /\ [][Next]_vars

---------------------------------------------------------------------------
(* The aggregation functions applied to tables drawn from bounded sets *)

RECURSIVE AggInsertOrders(_, _, _)
AggInsertOrders(s, times, k) ==
    IF k > Len(times) THEN s
    ELSE AggInsertOrders(InsertOrder(s, times[k], "Walk-in", 0), times, k + 1)

RECURSIVE AggInsertItems(_, _, _)
AggInsertItems(s, lines, k) ==
    IF k > Len(lines) THEN s
    ELSE LET order_id == lines[k][1]
             pid == lines[k][2][1]
             qty == lines[k][2][2]
             unit == SelectProduct(s.products, pid)[1].selling_price
             total == SelectSeq(s.orders, LAMBDA o : o.id = order_id)[1].total_amount
         IN  AggInsertItems(
                 SetTotal(InsertItem(s, order_id, pid, qty, unit), order_id, total + unit * qty),
                 lines, k + 1)

AggStore(stocks, times, lines) ==
    LET s0 == InsertProduct(EmptyStore, "Soap", 10, 20, stocks[1])
        s1 == InsertProduct(s0, "Tea Pack 100g", 30, 45, stocks[2])
    IN  AggInsertItems(AggInsertOrders(s1, times, 1), lines, 1)

InitAgg ==
    \E n \in AggOrderCounts, m \in 0..AggMaxItems :
      \E stocks \in [AggPids -> AggStockInputs],
         times \in [1..n -> OrderTimeInputs],
         lines \in [1..m -> (1..n) \X AggLineInputs] :
        /\ db = AggStore(stocks, times, lines)
        /\ tx = db
        /\ products_df = db.products
        /\ orders_df = db.orders
        /\ order_items_df = JoinProducts(db.order_items, db.products)
        /\ pc = "idle"
        /\ idx = 0
        /\ cart = <<>>
        /\ total_amt = 0
        /\ oid = 0
        /\ now = AggNow
        /\ message = "loaded"
        /\ per_hour = <<>>
        /\ low_df = <<>>
        /\ threshold_arg = Threshold

ApplyCustomersPerHour ==
    /\ per_hour' = compute_customers_per_hour(orders_df)
    /\ low_df' = <<>>
    /\ message' = "Customers per Hour"
    /\ UNCHANGED <<db, tx, pc, idx, cart, products_df, orders_df, order_items_df,
                   total_amt, oid, now, threshold_arg>>

ApplyLowStock(t) ==
    /\ low_df' = compute_low_stock(products_df, order_items_df, db.orders, now, t)
    /\ threshold_arg' = t
    /\ per_hour' = <<>>
    /\ message' = "Low Stock Products"
    /\ UNCHANGED <<db, tx, pc, idx, cart, products_df, orders_df, order_items_df,
                   total_amt, oid, now>>

NextAgg ==
    \/ ApplyCustomersPerHour
    \/ \E t \in ThresholdInputs : ApplyLowStock(t)

SpecAgg == InitAgg /\ [][NextAgg]_vars

---------------------------------------------------------------------------
(* Properties *)

StockOf(products, pid) == SelectProduct(products, pid)[1].stock_qty

RECURSIVE SumLineTotals(_, _)
SumLineTotals(rows, order_id) ==
    IF rows = <<>> THEN 0
    ELSE (IF Head(rows).order_id = order_id THEN Head(rows).unit_price * Head(rows).qty ELSE 0)
         + SumLineTotals(Tail(rows), order_id)

RECURSIVE StagedQty(_, _)
StagedQty(items, pid) ==
    IF items = <<>> THEN 0
    ELSE (IF Head(items).product_id = pid THEN Head(items).qty ELSE 0)
         + StagedQty(Tail(items), pid)

RECURSIVE SumCustomers(_)
SumCustomers(rows) ==
    IF rows = <<>> THEN 0 ELSE Head(rows).customers + SumCustomers(Tail(rows))

RECURSIVE SoldSince(_, _, _, _)
SoldSince(rows, orders, pid, cutoff) ==
    IF rows = <<>> THEN 0
    ELSE (IF /\ Head(rows).product_id = pid
             /\ \E i \in DOMAIN orders : /\ orders[i].id = Head(rows).order_id
                                         /\ orders[i].order_time >= cutoff
          THEN Head(rows).qty ELSE 0)
         + SoldSince(Tail(rows), orders, pid, cutoff)

StoreAsLoaded ==
    /\ db.products = products_df
    /\ db.orders = orders_df
    /\ Len(db.order_items) = Len(order_items_df)
    /\ JoinProducts(db.order_items, db.products) = order_items_df

(* C1: every product's stock_qty is >= 0 in every reachable state of the   *)
(* store, in the committed content and in the content an open transaction  *)
(* sees: a decrement past zero leaves 0.                                   *)
StockNeverNegative ==
    /\ \A i \in DOMAIN db.products : db.products[i].stock_qty >= 0
    /\ \A i \in DOMAIN tx.products : tx.products[i].stock_qty >= 0

(* Finalize has just deducted a staged qty larger than the positive stock *)
OverDeductionClamped ==
    /\ pc = "items"
    /\ idx = 2
    /\ StockOf(db.products, cart[1].product_id) > 0
    /\ cart[1].qty > StockOf(db.products, cart[1].product_id)
    /\ StockOf(tx.products, cart[1].product_id) = 0

(* C2: while Finalize is writing, and after it has failed (a store write   *)
(* error, or a staged product without a row), the store holds exactly the  *)
(* products, orders and order items it held when the run loaded them.      *)
FinalizeAtomic ==
    (pc = "items" \/ message \in {"OperationalError", "TypeError"}) => StoreAsLoaded

(* Finalize failed after the header and an item were written *)
FinalizeFailedMidway ==
    /\ message = "OperationalError"
    /\ Len(cart) = 2
    /\ oid = db.seq_orders + 1
    /\ oid \notin Ids(db.orders)

(* C3: every stored order's total_amount is the sum of unit_price * qty    *)
(* over its order items, and each unit_price is the selling_price of the   *)
(* product in the store.                                                   *)
TotalIsSumOfLines ==
    /\ \A i \in DOMAIN db.orders :
          db.orders[i].total_amount = SumLineTotals(db.order_items, db.orders[i].id)
    /\ \A i \in DOMAIN db.order_items :
          \A j \in DOMAIN db.products :
             db.products[j].id = db.order_items[i].product_id
                => db.order_items[i].unit_price = db.products[j].selling_price

(* an order of two lines with a positive total has been saved *)
OrderSavedWithTotal ==
    /\ message = "Order saved"
    /\ total_amt > 0
    /\ \E i \in DOMAIN db.orders :
          /\ db.orders[i].id = oid
          /\ db.orders[i].total_amount = total_amt
          /\ Cardinality({k \in DOMAIN db.order_items : db.order_items[k].order_id = oid}) = 2

FinalizeEffect ==
    LET n == Len(cart)
        no == Len(db.orders)
        ni == Len(db.order_items)
    IN  /\ n >= 1
        /\ Len(db'.orders) = no + 1
        /\ SubSeq(db'.orders, 1, no) = db.orders
        /\ db'.orders[no + 1].id \notin Ids(db.orders)
        /\ Len(db'.order_items) = ni + n
        /\ SubSeq(db'.order_items, 1, ni) = db.order_items
        /\ \A k \in 1..n :
              /\ db'.order_items[ni + k].order_id = db'.orders[no + 1].id
              /\ db'.order_items[ni + k].product_id = cart[k].product_id
              /\ db'.order_items[ni + k].qty = cart[k].qty
        /\ Len(db'.products) = Len(db.products)
        /\ \A i \in DOMAIN db.products :
              LET want == db.products[i].stock_qty - StagedQty(cart, db.products[i].id)
              IN  db'.products[i] =
                     [db.products[i] EXCEPT !.stock_qty = IF want < 0 THEN 0 ELSE want]

(* C4: a Finalize that commits a cart of n >= 1 lines adds one order row   *)
(* and n order item rows (the new order's id, the staged product_id and    *)
(* qty), lowers each staged product's stock by its staged qty, not below   *)
(* 0, and changes no other product, order or order item.                   *)
FinalizeAddsExactly ==
    [][(pc = "items" /\ pc' = "idle" /\ message' = "Order saved") => FinalizeEffect]_vars

(* a cart of two lines has been committed *)
TwoLinesCommitted ==
    /\ message = "Order saved"
    /\ cart = <<>>
    /\ Len(db.orders) = Len(orders_df) + 1
    /\ Len(db.order_items) = Len(order_items_df) + 2

(* C5: Finalize never runs on an empty cart, and the Add Order page of an  *)
(* empty cart reports it and writes nothing to the store.                  *)
EmptyCartRejected ==
    /\ pc = "items" => Len(cart) >= 1
    /\ message = "Add products to order first."
          => (cart = <<>> /\ pc = "idle" /\ tx = db /\ StoreAsLoaded)

(* the Add Order page was drawn with an empty cart after an order was saved *)
EmptyCartPageShown ==
    /\ message = "Add products to order first."
    /\ cart = <<>>
    /\ Len(db.orders) > Len(SampleOrders)

(* C6: every order item's order_id is the id of a stored order and its     *)
(* product_id is the id of a stored product.                               *)
ForeignKeysHold ==
    \A i \in DOMAIN db.order_items :
       /\ db.order_items[i].order_id \in Ids(db.orders)
       /\ db.order_items[i].product_id \in Ids(db.products)

(* an order was saved for a product created by a forced re-seed *)
OrderSavedAfterReseed ==
    /\ message = "Order saved"
    /\ db.seq_products >= 2 * Len(SeedProducts)
    /\ \E i \in DOMAIN db.order_items : db.order_items[i].order_id = oid

(* C7: a sample order that references a product id without a row is        *)
(* skipped, so that every sample order in the store has all its lines, and *)
(* a sample order whose products all exist is in the store after seeding.  *)
SeedSkipsOrderWithMissingProduct ==
    /\ \A i \in DOMAIN db.orders : \A k \in DOMAIN SampleOrders :
          db.orders[i].customer_name = SampleOrders[k].cust
             => \A j \in DOMAIN SampleOrders[k].items :
                   \E r \in DOMAIN db.order_items :
                      /\ db.order_items[r].order_id = db.orders[i].id
                      /\ db.order_items[r].product_id = SampleOrders[k].items[j][1]
                      /\ db.order_items[r].qty = SampleOrders[k].items[j][2]
    /\ message = "Seeded"
          => \A k \in DOMAIN SampleOrders :
                (\A j \in DOMAIN SampleOrders[k].items :
                    SampleOrders[k].items[j][1] \in Ids(db.products))
                   => \E i \in DOMAIN db.orders :
                         db.orders[i].customer_name = SampleOrders[k].cust

(* C8: compute_customers_per_hour returns 24 rows, hours 0..23 in order,   *)
(* each with the number of orders of that hour, the counts summing to the  *)
(* number of orders; also for no orders.                                   *)
CustomersPerHourHas24Rows ==
    message \in {"Customers per Hour", "Business Insights"}
       => /\ Len(per_hour) = Hours
          /\ \A r \in DOMAIN per_hour :
                /\ per_hour[r].hour = r - 1
                /\ per_hour[r].customers >= 0
                /\ per_hour[r].customers =
                      Cardinality({i \in DOMAIN orders_df :
                                      orders_df[i].order_time % Hours = r - 1})
          /\ SumCustomers(per_hour) = Len(orders_df)

(* C9: compute_low_stock with threshold t returns exactly the products of  *)
(* stock_qty < t, each once, with sold_last_30d the sum of qty over the    *)
(* product's order items whose order is at most 30 days old.               *)
LowStockExact ==
    message = "Low Stock Products"
       => /\ {low_df[i].id : i \in DOMAIN low_df}
                = {db.products[j].id : j \in {j \in DOMAIN db.products :
                                                db.products[j].stock_qty < threshold_arg}}
          /\ \A i, k \in DOMAIN low_df : low_df[i].id = low_df[k].id => i = k
          /\ \A i \in DOMAIN low_df :
                /\ low_df[i].stock_qty = StockOf(db.products, low_df[i].id)
                /\ low_df[i].stock_qty < threshold_arg
                /\ low_df[i].sold_last_30d =
                      SoldSince(db.order_items, db.orders, low_df[i].id,
                                now - RecentDays * Hours)

(* a low-stock product with recent sales counted and an older sale left out *)
LowStockWithOldSale ==
    /\ message = "Low Stock Products"
    /\ \E i \in DOMAIN low_df :
          /\ low_df[i].sold_last_30d > 0
          /\ low_df[i].sold_last_30d < StagedQty(db.order_items, low_df[i].id)

(* C10: a run of the script on a store whose products table is not empty,  *)
(* which calls the seed loader with force=false and writes nothing else,   *)
(* changes no row of products, orders or order_items.                      *)
SeedIdempotent ==
    [][(/\ pc = "idle"
        /\ Len(db.products) > 0
        /\ message' \in {"Business Insights", "Item added", "Current Items",
                         "Add products to order first.", "IndexError"})
          => db' = db]_vars

(* the dashboard was drawn after an order had been recorded *)
DashboardAfterOrder ==
    /\ message = "Business Insights"
    /\ Len(db.orders) > Len(SampleOrders)
    /\ Len(db.products) > 0

====
